---- MODULE Spec2Model ----
(***************************************************************************)
(* A model of the HTTP resource layer of Timesketch, version 1 of the API  *)
(* (src/timesketch/api/v1/resources.py).  Every handler is one action: it  *)
(* reads the request, the database tables and the external collaborators,  *)
(* and leaves the tables, the calls it made and the response behind.       *)
(***************************************************************************)
EXTENDS Integers, Sequences, FiniteSets, TLC

VARIABLES
    request,          \* the request handled last: op, user, URL ids, form
    response,         \* its response: status code and returned objects
    views,            \* table View, id = position
    searchtemplates,  \* table SearchTemplate, id = position
    stories,          \* table Story, id = position
    timelines,        \* table Timeline, id = position
    searchindices,    \* table SearchIndex, id = position
    events,           \* table Event with its comments and labels, id = position
    es_labels,        \* search datastore: each document's timesketch_label list
    ds_calls,         \* calls the last request made to the search datastore
    jobs,             \* task queue: the jobs dispatched, by task id
    now,              \* the wall clock, in seconds
    inflight          \* the requests a worker is in the middle of handling

vars == <<request, response, views, searchtemplates, stories, timelines,
          searchindices, events, es_labels, ds_calls, jobs, now, inflight>>

(***************************************************************************)
(* Bounds of the model.                                                    *)
(***************************************************************************)
MaxEntityViews == 1
MaxStories == 1
MaxDerivedViews == 2
MaxTemplates == 3
MaxDocLabels == 2
MaxEvents == 2
MaxAnnotations == 1
MaxUploads == 2
MaxClock == 100000
MaxTransientViews == 2
MaxYoungClock == 7200
MaxTimelines == 4
MaxAttached == 2
MaxWorkers == 2

(***************************************************************************)
(* HTTP status codes.                                                      *)
(***************************************************************************)
HTTP_STATUS_CODE_OK == 200
HTTP_STATUS_CODE_CREATED == 201
HTTP_STATUS_CODE_BAD_REQUEST == 400
HTTP_STATUS_CODE_FORBIDDEN == 403
HTTP_STATUS_CODE_NOT_FOUND == 404
\* An exception no handler catches (an attribute of None, a method of None).
HTTP_STATUS_CODE_SERVER_ERROR == 500

(***************************************************************************)
(* Users, sketches and their ACL.  A sketch grants read, write and delete  *)
(* to the user who created it; further grants are made outside this layer. *)
(***************************************************************************)
Users == {"alice", "bob"}

\* Sketch 1 is alice's and shared read-only with bob; sketch 2 is bob's.
Sketches ==
    << [user |-> "alice",
        acl |-> [u \in Users |-> IF u = "alice" THEN {"read", "write", "delete"}
                                                ELSE {"read"}]],
       [user |-> "bob",
        acl |-> [u \in Users |-> IF u = "bob" THEN {"read", "write", "delete"}
                                              ELSE {}]] >>

SketchIds == DOMAIN Sketches

\* Ids a URL may carry: the sketches and one id of no sketch.
UrlSketchIds == SketchIds \cup {Len(Sketches) + 1}

has_permission(sketch_id, user, permission) ==
    permission \in Sketches[sketch_id].acl[user]

\* Sketch.query.get_with_acl: the sketch, or an abort with not-found when it
\* does not exist or the user lacks read access.  TRUE when it resolves.
get_with_acl(sketch_id, user) ==
    /\ sketch_id \in SketchIds
    /\ has_permission(sketch_id, user, "read")

(***************************************************************************)
(* JSON.  A JSON text is the object it denotes together with whether the   *)
(* text is the one json.dumps writes for it; json.loads forgets the text.  *)
(***************************************************************************)
json_dumps(obj) == [canonical |-> TRUE, obj |-> obj]

json_loads(text) == text.obj

\* The value of a filter's `indices`: a list of index names, or the string
\* the template snapshot writes.
IndexList(names) == [kind |-> "list", items |-> names]

AllSentinel == [kind |-> "str", items |-> <<"_all">>]

\* Python truth of an `indices` value: a non-empty list or string.
IndicesTruthy(v) == Len(v.items) > 0

\* dict.get(key, default)
dict_get(d, key, default) == IF key \in DOMAIN d THEN d[key] ELSE default

(***************************************************************************)
(* Requests and responses.                                                 *)
(***************************************************************************)
\* GET and DELETE carry no form: nothing of theirs can fail validation.
NoForm == [valid |-> TRUE]

\* The workers of the web server: each handles one request at a time.
Workers == 1..MaxWorkers

\* A worker between two requests.
IdleWorker ==
    [pc |-> "idle", user |-> "alice", sketch_id |-> 0, form |-> NoForm, found |-> 0]

NoRequests == [w \in Workers |-> IdleWorker]

Request(op, user, sketch_id, id, form) ==
    [op |-> op, user |-> user, sketch_id |-> sketch_id, id |-> id, form |-> form]

\* A response: its status, the keys of the JSON object of its body (none
\* when the body is no object), the JSON type of `objects`, and the objects.
Body(status, keys, objects_type, objects) ==
    [status |-> status, keys |-> keys, objects_type |-> objects_type,
     objects |-> objects]

\* abort(status), and to_json(..., status_code=status) of one entity: the
\* latter is {meta: ..., objects: [...]}.
Reply(status) ==
    IF status \in {HTTP_STATUS_CODE_OK, HTTP_STATUS_CODE_CREATED}
    THEN Body(status, {"meta", "objects"}, "list", <<>>)
    ELSE Body(status, {}, "none", <<>>)

\* "return HTTP_STATUS_CODE_OK": the body is the number.
BareStatus(status) == Body(status, {}, "none", <<>>)

(***************************************************************************)
(* View derivation: ViewListResource.create_view_from_form.                *)
(***************************************************************************)
\* The values the view starts from: the submitted form's.
form_defaults(form) ==
    [view_name |-> form.name,
     query_string |-> form.query,
     query_filter |-> json_dumps(form.filter),
     query_dsl |-> json_dumps(form.dsl),
     searchtemplate |-> 0]

\* The copy with the query string left as submitted.
copy_from_template_keeps_query(vals, template_id, template) ==
    [view_name |-> template.name,
     query_string |-> vals.query_string,
     query_filter |-> template.query_filter,
     query_dsl |-> template.query_dsl,
     searchtemplate |-> template_id]

\* "Copy values from the template": every query field is the template's.
copy_from_template(vals, template_id, template) ==
    [view_name |-> template.name,
     query_string |-> template.query_string,
     query_filter |-> template.query_filter,
     query_dsl |-> template.query_dsl,
     searchtemplate |-> template_id]

\* The filter written anew with its `indices` left as they are.
normalize_filter_keeps_indices(query_filter) ==
    json_dumps(json_loads(query_filter))

\* The filter a new search template is saved with: `indices`, when the filter
\* has a non-empty one, becomes the string _all; the text is written anew.
normalize_filter(query_filter) ==
    LET query_filter_dict == json_loads(query_filter)
        indices == dict_get(query_filter_dict, "indices", IndexList(<<>>))
    IN json_dumps(IF "indices" \in DOMAIN query_filter_dict /\ IndicesTruthy(indices)
                  THEN [query_filter_dict EXCEPT !["indices"] = AllSentinel]
                  ELSE query_filter_dict)

\* The SearchTemplate row "based on this view".
new_searchtemplate(vals, user, query_filter) ==
    [name |-> vals.view_name,
     user |-> user,
     query_string |-> vals.query_string,
     query_filter |-> query_filter,
     query_dsl |-> vals.query_dsl]

\* The derivation with the snapshot taken before the template copy: the new
\* search template holds the submitted values.
create_view_from_form_snapshot_first(sketch_id, user, form, templates) ==
    LET template_id == form.from_searchtemplate_id
        supplied == form_defaults(form)
        snapshot_filter == normalize_filter(supplied.query_filter)
        templates2 == IF form.new_searchtemplate
                      THEN Append(templates,
                                  new_searchtemplate(supplied, user, snapshot_filter))
                      ELSE templates
        vals == IF template_id # 0
                THEN copy_from_template(supplied, template_id, templates[template_id])
                ELSE supplied
    IN [view |-> [name |-> vals.view_name,
                  sketch_id |-> sketch_id,
                  user |-> user,
                  query_string |-> vals.query_string,
                  query_filter |-> IF form.new_searchtemplate
                                   THEN normalize_filter(vals.query_filter)
                                   ELSE vals.query_filter,
                  query_dsl |-> vals.query_dsl,
                  searchtemplate |-> IF form.new_searchtemplate
                                     THEN Len(templates2)
                                     ELSE vals.searchtemplate,
                  status |-> "new"],
        searchtemplates |-> templates2]

\* The whole derivation: the View row it persists and the SearchTemplate table
\* after it.  The template copy comes first, the snapshot second.
create_view_from_form(sketch_id, user, form, templates) ==
    LET template_id == form.from_searchtemplate_id
        supplied == form_defaults(form)
        vals == IF template_id # 0
                THEN copy_from_template(supplied, template_id, templates[template_id])
                ELSE supplied
        query_filter == IF form.new_searchtemplate
                        THEN normalize_filter(vals.query_filter)
                        ELSE vals.query_filter
        templates2 == IF form.new_searchtemplate
                      THEN Append(templates, new_searchtemplate(vals, user, query_filter))
                      ELSE templates
    IN [view |-> [name |-> vals.view_name,
                  sketch_id |-> sketch_id,
                  user |-> user,
                  query_string |-> vals.query_string,
                  query_filter |-> query_filter,
                  query_dsl |-> vals.query_dsl,
                  searchtemplate |-> IF form.new_searchtemplate
                                     THEN Len(templates2)
                                     ELSE vals.searchtemplate,
                  status |-> "new"],
        searchtemplates |-> templates2]

(***************************************************************************)
(* Views.                                                                  *)
(***************************************************************************)
\* POST /sketches/:sketch_id/views/
ViewListResource_post(user, sketch_id, form) ==
    LET template_id == form.from_searchtemplate_id
        made == create_view_from_form(sketch_id, user, form, searchtemplates)
    IN
    /\ request' = Request("ViewListResource.post", user, sketch_id, 0, form)
    /\ IF ~form.valid
       THEN /\ response' = Reply(HTTP_STATUS_CODE_BAD_REQUEST)
            /\ UNCHANGED <<views, searchtemplates>>
       ELSE IF ~get_with_acl(sketch_id, user)
       THEN /\ response' = Reply(HTTP_STATUS_CODE_NOT_FOUND)
            /\ UNCHANGED <<views, searchtemplates>>
       ELSE IF template_id # 0 /\ template_id \notin DOMAIN searchtemplates
       THEN \* SearchTemplate.query.get gives None, whose .name raises
            /\ response' = Reply(HTTP_STATUS_CODE_SERVER_ERROR)
            /\ UNCHANGED <<views, searchtemplates>>
       ELSE /\ searchtemplates' = made.searchtemplates
            /\ views' = Append(views, made.view)
            /\ response' = Reply(HTTP_STATUS_CODE_CREATED)
    /\ ds_calls' = <<>>
    /\ UNCHANGED <<stories, timelines, searchindices, events, es_labels, jobs, now, inflight>>

\* View.validate_filter: the filter text written anew.  The attributes it
\* adds when missing are none of the attributes this model reads.
validate_filter(view) == json_dumps(json_loads(view.query_filter))

\* GET /sketches/:sketch_id/views/:view_id/
ViewResource_get(user, sketch_id, view_id) ==
    /\ request' = Request("ViewResource.get", user, sketch_id, view_id, NoForm)
    /\ IF ~get_with_acl(sketch_id, user)
       THEN /\ response' = Reply(HTTP_STATUS_CODE_NOT_FOUND)
            /\ UNCHANGED views
       ELSE IF view_id \notin DOMAIN views
       THEN /\ response' = Reply(HTTP_STATUS_CODE_SERVER_ERROR)
            /\ UNCHANGED views
       ELSE IF views[view_id].sketch_id # sketch_id
       THEN /\ response' = Reply(HTTP_STATUS_CODE_NOT_FOUND)
            /\ UNCHANGED views
       ELSE IF views[view_id].name = "" /\ views[view_id].user # user
       THEN /\ response' = Reply(HTTP_STATUS_CODE_FORBIDDEN)
            /\ UNCHANGED views
       ELSE IF views[view_id].status = "deleted"
       THEN /\ response' = Reply(HTTP_STATUS_CODE_OK)
            /\ UNCHANGED views
       ELSE /\ views' = [views EXCEPT ![view_id].query_filter =
                                          validate_filter(views[view_id])]
            /\ response' = Reply(HTTP_STATUS_CODE_OK)
    /\ ds_calls' = <<>>
    /\ UNCHANGED <<searchtemplates, stories, timelines, searchindices, events,
                   es_labels, jobs, now, inflight>>

\* DELETE /sketches/:sketch_id/views/:view_id/
ViewResource_delete(user, sketch_id, view_id) ==
    /\ request' = Request("ViewResource.delete", user, sketch_id, view_id, NoForm)
    /\ IF ~get_with_acl(sketch_id, user)
       THEN /\ response' = Reply(HTTP_STATUS_CODE_NOT_FOUND)
            /\ UNCHANGED views
       ELSE IF view_id \notin DOMAIN views
       THEN /\ response' = Reply(HTTP_STATUS_CODE_SERVER_ERROR)
            /\ UNCHANGED views
       ELSE IF views[view_id].sketch_id # sketch_id
       THEN /\ response' = Reply(HTTP_STATUS_CODE_NOT_FOUND)
            /\ UNCHANGED views
       ELSE IF ~has_permission(sketch_id, user, "write")
       THEN /\ response' = Reply(HTTP_STATUS_CODE_FORBIDDEN)
            /\ UNCHANGED views
       ELSE /\ views' = [views EXCEPT ![view_id].status = "deleted"]
            /\ response' = BareStatus(HTTP_STATUS_CODE_OK)
    /\ ds_calls' = <<>>
    /\ UNCHANGED <<searchtemplates, stories, timelines, searchindices, events,
                   es_labels, jobs, now, inflight>>

\* POST /sketches/:sketch_id/views/:view_id/
ViewResource_post(user, sketch_id, view_id, form) ==
    /\ request' = Request("ViewResource.post", user, sketch_id, view_id, form)
    /\ IF ~form.valid
       THEN /\ response' = Reply(HTTP_STATUS_CODE_BAD_REQUEST)
            /\ UNCHANGED views
       ELSE IF ~get_with_acl(sketch_id, user)
       THEN /\ response' = Reply(HTTP_STATUS_CODE_NOT_FOUND)
            /\ UNCHANGED views
       ELSE IF view_id \notin DOMAIN views
       THEN /\ response' = Reply(HTTP_STATUS_CODE_SERVER_ERROR)
            /\ UNCHANGED views
       ELSE /\ views' = [views EXCEPT ![view_id] =
                    [@ EXCEPT !.query_string = IF form.dsl # {} THEN ""
                                                                ELSE form.query,
                              !.query_filter = json_dumps(form.filter),
                              !.query_dsl = json_dumps(form.dsl),
                              !.user = user,
                              !.sketch_id = sketch_id]]
            /\ response' = Reply(HTTP_STATUS_CODE_CREATED)
    /\ ds_calls' = <<>>
    /\ UNCHANGED <<searchtemplates, stories, timelines, searchindices, events,
                   es_labels, jobs, now, inflight>>

(***************************************************************************)
(* Stories.                                                                *)
(***************************************************************************)
\* POST /sketches/:sketch_id/stories/
StoryListResource_post(user, sketch_id, form) ==
    /\ request' = Request("StoryListResource.post", user, sketch_id, 0, form)
    /\ IF ~form.valid
       THEN /\ response' = Reply(HTTP_STATUS_CODE_BAD_REQUEST)
            /\ UNCHANGED stories
       ELSE IF ~get_with_acl(sketch_id, user)
       THEN /\ response' = Reply(HTTP_STATUS_CODE_NOT_FOUND)
            /\ UNCHANGED stories
       ELSE /\ stories' = Append(stories, [title |-> "", content |-> "",
                                           sketch_id |-> sketch_id, user |-> user])
            /\ response' = Reply(HTTP_STATUS_CODE_CREATED)
    /\ ds_calls' = <<>>
    /\ UNCHANGED <<views, searchtemplates, timelines, searchindices, events,
                   es_labels, jobs, now, inflight>>

\* GET /sketches/:sketch_id/stories/:story_id/
StoryResource_get(user, sketch_id, story_id) ==
    /\ request' = Request("StoryResource.get", user, sketch_id, story_id, NoForm)
    /\ response' = Reply(IF ~get_with_acl(sketch_id, user)
                         THEN HTTP_STATUS_CODE_NOT_FOUND
                         ELSE IF story_id \notin DOMAIN stories
                         THEN HTTP_STATUS_CODE_SERVER_ERROR
                         ELSE IF stories[story_id].sketch_id # sketch_id
                         THEN HTTP_STATUS_CODE_NOT_FOUND
                         ELSE HTTP_STATUS_CODE_OK)
    /\ ds_calls' = <<>>
    /\ UNCHANGED <<views, searchtemplates, stories, timelines, searchindices,
                   events, es_labels, jobs, now, inflight>>

\* POST /sketches/:sketch_id/stories/:story_id/
StoryResource_post(user, sketch_id, story_id, form) ==
    /\ request' = Request("StoryResource.post", user, sketch_id, story_id, form)
    /\ IF ~form.valid
       THEN /\ response' = Reply(HTTP_STATUS_CODE_BAD_REQUEST)
            /\ UNCHANGED stories
       ELSE IF ~get_with_acl(sketch_id, user)
       THEN /\ response' = Reply(HTTP_STATUS_CODE_NOT_FOUND)
            /\ UNCHANGED stories
       ELSE IF story_id \notin DOMAIN stories
       THEN /\ response' = Reply(HTTP_STATUS_CODE_SERVER_ERROR)
            /\ UNCHANGED stories
       ELSE IF stories[story_id].sketch_id # sketch_id
       THEN /\ response' = Reply(HTTP_STATUS_CODE_NOT_FOUND)
            /\ UNCHANGED stories
       ELSE /\ stories' = [stories EXCEPT ![story_id].title = form.title,
                                          ![story_id].content = form.content]
            /\ response' = Reply(HTTP_STATUS_CODE_CREATED)
    /\ ds_calls' = <<>>
    /\ UNCHANGED <<views, searchtemplates, timelines, searchindices, events,
                   es_labels, jobs, now, inflight>>

(***************************************************************************)
(* Timelines.  A timeline taken out of its sketch keeps its row and loses  *)
(* its sketch: sketch_id 0.                                                *)
(***************************************************************************)
\* sketch.timelines
sketch_timelines(sketch_id) ==
    {t \in DOMAIN timelines : timelines[t].sketch_id = sketch_id}

\* GET /sketches/:sketch_id/timelines/:timeline_id/
TimelineResource_get(user, sketch_id, timeline_id) ==
    /\ request' = Request("TimelineResource.get", user, sketch_id, timeline_id, NoForm)
    /\ response' = Reply(IF ~get_with_acl(sketch_id, user)
                         THEN HTTP_STATUS_CODE_NOT_FOUND
                         ELSE IF timeline_id \notin DOMAIN timelines
                         THEN HTTP_STATUS_CODE_SERVER_ERROR
                         ELSE IF timelines[timeline_id].sketch_id # sketch_id
                         THEN HTTP_STATUS_CODE_NOT_FOUND
                         ELSE IF ~has_permission(sketch_id, user, "read")
                         THEN HTTP_STATUS_CODE_FORBIDDEN
                         ELSE HTTP_STATUS_CODE_OK)
    /\ ds_calls' = <<>>
    /\ UNCHANGED <<views, searchtemplates, stories, timelines, searchindices,
                   events, es_labels, jobs, now, inflight>>

\* DELETE /sketches/:sketch_id/timelines/:timeline_id/
TimelineResource_delete(user, sketch_id, timeline_id) ==
    /\ request' = Request("TimelineResource.delete", user, sketch_id, timeline_id, NoForm)
    /\ IF ~get_with_acl(sketch_id, user)
       THEN /\ response' = Reply(HTTP_STATUS_CODE_NOT_FOUND)
            /\ UNCHANGED timelines
       ELSE IF timeline_id \notin DOMAIN timelines
       THEN /\ response' = Reply(HTTP_STATUS_CODE_SERVER_ERROR)
            /\ UNCHANGED timelines
       ELSE IF timelines[timeline_id].sketch_id # sketch_id
       THEN /\ response' = Reply(HTTP_STATUS_CODE_NOT_FOUND)
            /\ UNCHANGED timelines
       ELSE IF ~has_permission(sketch_id, user, "write")
       THEN /\ response' = Reply(HTTP_STATUS_CODE_FORBIDDEN)
            /\ UNCHANGED timelines
       ELSE /\ timelines' = [timelines EXCEPT ![timeline_id].sketch_id = 0]
            /\ response' = BareStatus(HTTP_STATUS_CODE_OK)
    /\ ds_calls' = <<>>
    /\ UNCHANGED <<views, searchtemplates, stories, searchindices, events,
                   es_labels, jobs, now, inflight>>

(***************************************************************************)
(* The initial database: two search indices, both in sketch 1 and the      *)
(* second also in sketch 2, two search templates, and nothing else.        *)
(***************************************************************************)
\* grant_permission of read, write and delete to one user.
full_grants(user) == {<<user, permission>> : permission \in {"read", "write", "delete"}}

InitSearchIndices ==
    << [index_name |-> "idx_a", name |-> "a", user |-> "alice", status |-> "ready",
        grants |-> full_grants("alice"), updated_at |-> 0],
       [index_name |-> "idx_b", name |-> "b", user |-> "bob", status |-> "ready",
        grants |-> full_grants("bob"), updated_at |-> 0] >>

InitTimelines ==
    << [sketch_id |-> 1, searchindex |-> 1, user |-> "alice"],
       [sketch_id |-> 1, searchindex |-> 2, user |-> "alice"],
       [sketch_id |-> 2, searchindex |-> 2, user |-> "bob"] >>

InitSearchTemplates ==
    << [name |-> "tmpl_error", user |-> "alice", query_string |-> "error",
        query_filter |-> json_dumps([limit |-> 10, indices |-> IndexList(<<"idx_a">>)]),
        query_dsl |-> json_dumps({})],
       [name |-> "tmpl_dsl", user |-> "bob", query_string |-> "",
        query_filter |-> json_dumps([limit |-> 20]),
        query_dsl |-> json_dumps({"match_all"})] >>

\* The documents of the search datastore, as <<index name, document id>>.
Documents == {<<"idx_a", "d1">>, <<"idx_b", "d2">>}

\* No document carries the field timesketch_label.
NoLabels == [d \in {} |-> <<>>]

Init ==
    /\ request = Request("none", "alice", 0, 0, NoForm)
    /\ response = Reply(0)
    /\ views = <<>>
    /\ searchtemplates = InitSearchTemplates
    /\ stories = <<>>
    /\ timelines = InitTimelines
    /\ searchindices = InitSearchIndices
    /\ events = <<>>
    /\ es_labels = NoLabels
    /\ ds_calls = <<>>
    /\ jobs = {}
    /\ now = 0
    /\ inflight = NoRequests

(***************************************************************************)
(* SpecEntity: the handlers of the sketch-scoped entities (views, stories, *)
(* timelines), requested by every user against every sketch id.            *)
(***************************************************************************)
SaveViewForm(valid, name, query, filter, dsl, from_searchtemplate_id, new) ==
    [valid |-> valid, name |-> name, query |-> query, filter |-> filter,
     dsl |-> dsl, from_searchtemplate_id |-> from_searchtemplate_id,
     new_searchtemplate |-> new]

EntityViewForms ==
    { SaveViewForm(TRUE, "", "q0", [limit |-> 40], {}, 0, FALSE),
      SaveViewForm(TRUE, "v", "q1", [limit |-> 40], {}, 0, FALSE),
      SaveViewForm(FALSE, "v", "q1", [limit |-> 40], {}, 0, FALSE) }

StoryForms ==
    { [valid |-> v, title |-> "title", content |-> "content"] : v \in BOOLEAN }

NextEntity ==
    \E user \in Users, sketch_id \in UrlSketchIds :
        \/ /\ Len(views) < MaxEntityViews
           /\ \E form \in EntityViewForms : ViewListResource_post(user, sketch_id, form)
        \/ \E view_id \in 1..MaxEntityViews : ViewResource_get(user, sketch_id, view_id)
        \/ \E view_id \in 1..MaxEntityViews : ViewResource_delete(user, sketch_id, view_id)
        \/ \E view_id \in 1..MaxEntityViews, form \in EntityViewForms :
               ViewResource_post(user, sketch_id, view_id, form)
        \/ /\ Len(stories) < MaxStories
           /\ \E form \in StoryForms : StoryListResource_post(user, sketch_id, form)
        \/ \E story_id \in 1..MaxStories : StoryResource_get(user, sketch_id, story_id)
        \/ \E story_id \in 1..MaxStories, form \in StoryForms :
               StoryResource_post(user, sketch_id, story_id, form)
        \/ \E timeline_id \in DOMAIN timelines :
               TimelineResource_get(user, sketch_id, timeline_id)
        \/ \E timeline_id \in DOMAIN timelines :
               TimelineResource_delete(user, sketch_id, timeline_id)

SpecEntity == Init /\ [][NextEntity]_vars

(***************************************************************************)
(* Claims about the sketch-scoped entities, checked under SpecEntity.      *)
(***************************************************************************)
\* The handlers that take a sketch id and an entity id.
EntityOps ==
    {"ViewResource.get", "ViewResource.post", "ViewResource.delete",
     "StoryResource.get", "StoryResource.post",
     "TimelineResource.get", "TimelineResource.delete"}

\* The table the entity id of such a handler addresses.
EntityTable(op, view_table, story_table, timeline_table) ==
    IF op \in {"ViewResource.get", "ViewResource.post", "ViewResource.delete"}
    THEN view_table
    ELSE IF op \in {"StoryResource.get", "StoryResource.post"}
    THEN story_table
    ELSE timeline_table

\* C1: a well-formed request to a handler that takes a sketch id and an entity
\* id, for an entity that belongs to another sketch than the one of the URL,
\* ends in not-found and leaves the entity as it was.
C1_SketchMismatchIsNotFound ==
    [][ LET op == request'.op
            id == request'.id
            before == EntityTable(op, views, stories, timelines)
            after == EntityTable(op, views', stories', timelines')
        IN (/\ op \in EntityOps
            /\ request'.form.valid
            /\ id \in DOMAIN before
            /\ before[id].sketch_id # request'.sketch_id)
           => (/\ response'.status = HTTP_STATUS_CODE_NOT_FOUND
               /\ after[id] = before[id]) ]_vars

\* The rows that belong to a sketch: its views, stories, timelines and events
\* (an event row holds its comments and labels).
SketchRecords(sketch_id, view_table, story_table, timeline_table, event_table) ==
    << {<<i, view_table[i]>> : i \in {j \in DOMAIN view_table :
                                        view_table[j].sketch_id = sketch_id}},
       {<<i, story_table[i]>> : i \in {j \in DOMAIN story_table :
                                         story_table[j].sketch_id = sketch_id}},
       {<<i, timeline_table[i]>> : i \in {j \in DOMAIN timeline_table :
                                            timeline_table[j].sketch_id = sketch_id}},
       {<<i, event_table[i]>> : i \in {j \in DOMAIN event_table :
                                         event_table[j].sketch_id = sketch_id}} >>

\* C2: no request of a user who holds read but not write permission on a
\* sketch changes a view, story, timeline, event, comment or label of it.
C2_ReadOnlyUserChangesNothing ==
    [][ \A sketch_id \in SketchIds :
            (/\ has_permission(sketch_id, request'.user, "read")
             /\ ~has_permission(sketch_id, request'.user, "write"))
            => SketchRecords(sketch_id, views', stories', timelines', events')
               = SketchRecords(sketch_id, views, stories, timelines, events) ]_vars

(***************************************************************************)
(* SpecDerive: view creation with every combination of submitted filter,   *)
(* referenced search template and request for a new search template.       *)
(***************************************************************************)
\* Submitted filters: no `indices`, an empty list, a list of one index of the
\* sketch, and the list that asks for all indices.
DeriveFilters ==
    { [limit |-> 40],
      [limit |-> 40, indices |-> IndexList(<<>>)],
      [limit |-> 40, indices |-> IndexList(<<"idx_b">>)],
      [limit |-> 40, indices |-> IndexList(<<"_all">>)] }

DeriveForms ==
    { SaveViewForm(TRUE, "form_name", "form_query", filter, {"form_dsl"},
                   template_id, new) :
          filter \in DeriveFilters, template_id \in 0..MaxTemplates,
          new \in BOOLEAN }
    \cup { SaveViewForm(FALSE, "form_name", "form_query", [limit |-> 40],
                        {"form_dsl"}, 0, FALSE) }

NextDerive ==
    \E user \in Users, sketch_id \in SketchIds, form \in DeriveForms :
        /\ Len(views) < MaxDerivedViews
        /\ form.new_searchtemplate => Len(searchtemplates) < MaxTemplates
        /\ ViewListResource_post(user, sketch_id, form)

SpecDerive == Init /\ [][NextDerive]_vars

(***************************************************************************)
(* Claims about view derivation, checked under SpecDerive.                 *)
(***************************************************************************)
\* The last request created a view: the last row of the View table.
ViewCreated ==
    /\ request.op = "ViewListResource.post"
    /\ response.status = HTTP_STATUS_CODE_CREATED

CreatedView == views[Len(views)]

\* The search template the form of the last request references.
ReferencedTemplate == searchtemplates[request.form.from_searchtemplate_id]

\* The search template the last request persisted.
SpawnedTemplate == searchtemplates[Len(searchtemplates)]

\* `after` is the filter text `before` with a non-empty `indices` replaced by
\* the string _all and every other attribute, present or absent, as it was.
IsNormalizedFrom(after, before) ==
    /\ DOMAIN after.obj = DOMAIN before.obj
    /\ \A key \in DOMAIN before.obj :
           after.obj[key] = IF key = "indices" /\ IndicesTruthy(before.obj[key])
                            THEN AllSentinel
                            ELSE before.obj[key]

\* C3 as claimed: a view created from a referenced search template has the
\* template's name, query string, filter and raw query, whatever the form holds.
C3_ViewEqualsTemplate ==
    (ViewCreated /\ request.form.from_searchtemplate_id # 0)
    => /\ CreatedView.name = ReferencedTemplate.name
       /\ CreatedView.query_string = ReferencedTemplate.query_string
       /\ CreatedView.query_filter = ReferencedTemplate.query_filter
       /\ CreatedView.query_dsl = ReferencedTemplate.query_dsl

\* C3 as amended: a view created from a referenced search template has the
\* template's name, query string and raw query, whatever the form holds; its
\* filter is the template's stored filter unless the form also asks for a new
\* search template, and then it is the template's filter with a non-empty
\* `indices` replaced by _all.
C3_TemplatePrecedence ==
    (ViewCreated /\ request.form.from_searchtemplate_id # 0)
    => /\ CreatedView.name = ReferencedTemplate.name
       /\ CreatedView.query_string = ReferencedTemplate.query_string
       /\ CreatedView.query_dsl = ReferencedTemplate.query_dsl
       /\ IF request.form.new_searchtemplate
          THEN IsNormalizedFrom(CreatedView.query_filter,
                                ReferencedTemplate.query_filter)
          ELSE CreatedView.query_filter = ReferencedTemplate.query_filter

\* A view was created from the template of the specification's example (query
\* string "error", indices ["idx_a"]), with another query string submitted.
C3_Witness ==
    /\ ViewCreated
    /\ request.form.from_searchtemplate_id = 1
    /\ ~request.form.new_searchtemplate
    /\ request.form.query = "form_query"
    /\ "indices" \in DOMAIN request.form.filter
    /\ CreatedView.query_string = "error"

\* C4: when one request references a search template and asks for a new one,
\* the new search template has the referenced template's name, query string
\* and raw query, and its filter is the referenced template's filter brought
\* to the normal form, whatever the submitted form holds for the four.
C4_SnapshotAfterCopy ==
    (/\ ViewCreated
     /\ request.form.from_searchtemplate_id # 0
     /\ request.form.new_searchtemplate)
    => /\ SpawnedTemplate.name = ReferencedTemplate.name
       /\ SpawnedTemplate.query_string = ReferencedTemplate.query_string
       /\ SpawnedTemplate.query_dsl = ReferencedTemplate.query_dsl
       /\ IsNormalizedFrom(SpawnedTemplate.query_filter,
                           ReferencedTemplate.query_filter)

\* One request derived from template 1 and spawned template 3, with a
\* submitted filter that names another index than the template's.
C4_Witness ==
    /\ ViewCreated
    /\ request.form.from_searchtemplate_id = 1
    /\ request.form.new_searchtemplate
    /\ request.form.filter = [limit |-> 40, indices |-> IndexList(<<"idx_b">>)]
    /\ Len(searchtemplates) = Len(InitSearchTemplates) + 1
    /\ CreatedView.searchtemplate = Len(searchtemplates)
    /\ SpawnedTemplate.query_string = "error"
    /\ SpawnedTemplate.query_filter.obj = [limit |-> 10, indices |-> AllSentinel]

\* The filter the snapshot step starts from: the referenced template's when
\* the form references one, the submitted one otherwise.
CurrentFilter ==
    IF request.form.from_searchtemplate_id # 0
    THEN ReferencedTemplate.query_filter
    ELSE json_dumps(request.form.filter)

\* C5 as claimed: whenever a new search template is requested, its filter has
\* `indices` equal to _all, and the view's filter is that same filter.
C5_IndicesAlwaysAll ==
    (ViewCreated /\ request.form.new_searchtemplate)
    => /\ "indices" \in DOMAIN SpawnedTemplate.query_filter.obj
       /\ SpawnedTemplate.query_filter.obj.indices = AllSentinel
       /\ CreatedView.query_filter = SpawnedTemplate.query_filter

\* C5 as amended: whenever a new search template is requested, its filter is
\* the current filter with `indices` equal to _all if the current filter has a
\* non-empty `indices`, and with `indices` absent or empty as before if not;
\* the view's filter is that same filter.
C5_NonEmptyIndicesBecomeAll ==
    (ViewCreated /\ request.form.new_searchtemplate)
    => /\ IsNormalizedFrom(SpawnedTemplate.query_filter, CurrentFilter)
       /\ SpawnedTemplate.query_filter.canonical
       /\ CreatedView.query_filter = SpawnedTemplate.query_filter

\* A new search template was spawned from a submitted filter that names an
\* index, and holds _all.
C5_Witness ==
    /\ ViewCreated
    /\ request.form.new_searchtemplate
    /\ request.form.from_searchtemplate_id = 0
    /\ request.form.filter = [limit |-> 40, indices |-> IndexList(<<"idx_b">>)]
    /\ SpawnedTemplate.query_filter.obj = [limit |-> 40, indices |-> AllSentinel]
    /\ CreatedView.query_filter = SpawnedTemplate.query_filter

(***************************************************************************)
(* The search datastore, as this layer uses it.                            *)
(***************************************************************************)
\* The order in which the datastore returns the documents that match.
DocumentOrder == << <<"idx_a", "d1">>, <<"idx_b", "d2">> >>

\* A document as datastore.search returns it: its _source carries the field
\* timesketch_label once a label was set on it, and not before.
es_hit(doc) ==
    [index |-> doc[1], id |-> doc[2],
     source |-> IF doc \in DOMAIN es_labels
                THEN [message |-> "m", timesketch_label |-> es_labels[doc]]
                ELSE [message |-> "m"]]

\* The result of datastore.search on `indices` when `matched` are the
\* documents of the datastore that match the query.
es_search(matched, indices) ==
    LET docs == SelectSeq(DocumentOrder, LAMBDA d : d \in matched /\ d[1] \in indices)
    IN [i \in 1..Len(docs) |-> es_hit(docs[i])]

(***************************************************************************)
(* Explore and Aggregation.                                                *)
(***************************************************************************)
\* {t.searchindex.index_name for t in sketch.timelines}
sketch_indices(sketch_id) ==
    {searchindices[timelines[t].searchindex].index_name :
        t \in sketch_timelines(sketch_id)}

\* timesketch.lib.utils.get_validated_indices: the requested indices without
\* those that are no index of the sketch.
get_validated_indices(indices, of_sketch) ==
    LET exclude == indices \ of_sketch
    IN indices \ exclude

\* The resolution without the validation against the sketch's indices.
resolve_indices_unvalidated(query_filter, sketch_id) ==
    LET of_sketch == sketch_indices(sketch_id)
        requested == IF "indices" \in DOMAIN query_filter
                     THEN {query_filter.indices.items[i] :
                               i \in 1..Len(query_filter.indices.items)}
                     ELSE of_sketch
    IN IF "_all" \in requested THEN of_sketch ELSE requested

\* The indices a query runs on: the filter's, all of the sketch's when the
\* filter has none or names _all, and then only those of the sketch.
resolve_indices(query_filter, sketch_id) ==
    LET of_sketch == sketch_indices(sketch_id)
        requested == IF "indices" \in DOMAIN query_filter
                     THEN {query_filter.indices.items[i] :
                               i \in 1..Len(query_filter.indices.items)}
                     ELSE of_sketch
        indices == IF "_all" \in requested THEN of_sketch ELSE requested
    IN get_validated_indices(indices, of_sketch)

\* Python truth of a tuple: it has an element.
TupleTruthy(tuple) == Len(tuple) > 0

\* "Make sure we have a query string or star filter": the handlers negate the
\* tuple of the criteria, not the criteria.
explore_has_criteria(form) ==
    TupleTruthy(<< form.query,
                   dict_get(form.filter, "star", FALSE),
                   dict_get(form.filter, "events", <<>>),
                   form.dsl >>)

aggregation_has_criteria(form) ==
    TupleTruthy(<< form.query,
                   dict_get(form.filter, "star", FALSE),
                   dict_get(form.filter, "events", <<>>) >>)

\* The names of the labels of one sketch in a document's label list.
RECURSIVE labels_of_sketch(_, _)
labels_of_sketch(label_list, sketch_id) ==
    IF label_list = <<>>
    THEN <<>>
    ELSE LET label == Head(label_list)
             rest == labels_of_sketch(Tail(label_list), sketch_id)
         IN IF sketch_id # label.sketch_id THEN rest ELSE <<label.name>> \o rest

\* explore_event without the comparison of the label's sketch with the
\* sketch of the request.
explore_event_any_sketch(event, sketch_id) ==
    [index |-> event.index, id |-> event.id, selected |-> FALSE,
     source |-> IF "timesketch_label" \in DOMAIN event.source
                THEN [message |-> event.source.message,
                      label |-> [i \in 1..Len(event.source.timesketch_label) |->
                                    event.source.timesketch_label[i].name]]
                ELSE [message |-> event.source.message, label |-> <<>>]]

\* "Get labels for each event that matches the sketch.  Remove all other
\* labels": the event as the response carries it.
explore_event(event, sketch_id) ==
    [index |-> event.index, id |-> event.id, selected |-> FALSE,
     source |-> IF "timesketch_label" \in DOMAIN event.source
                THEN [message |-> event.source.message,
                      label |-> labels_of_sketch(event.source.timesketch_label,
                                                 sketch_id)]
                ELSE [message |-> event.source.message, label |-> <<>>]]

\* An insert of a new View whether or not the user has one without a name.
insert_user_state_view(user, sketch_id, form) ==
    Append(views, [name |-> "", sketch_id |-> sketch_id, user |-> user,
                   query_string |-> form.query,
                   query_filter |-> json_dumps(form.filter),
                   query_dsl |-> json_dumps(form.dsl),
                   searchtemplate |-> 0, status |-> "new"])

\* View.get_or_create(user, sketch, name=u'') followed by the assignment of
\* the query fields: the View table after it.
upsert_user_state_view(user, sketch_id, form) ==
    LET found == {i \in DOMAIN views : /\ views[i].user = user
                                       /\ views[i].sketch_id = sketch_id
                                       /\ views[i].name = ""}
        first == CHOOSE i \in found : \A j \in found : i <= j
        fresh == [name |-> "", sketch_id |-> sketch_id, user |-> user,
                  query_string |-> form.query,
                  query_filter |-> json_dumps(form.filter),
                  query_dsl |-> json_dumps(form.dsl),
                  searchtemplate |-> 0, status |-> "new"]
    IN IF found = {}
       THEN Append(views, fresh)
       ELSE [views EXCEPT ![first].query_string = form.query,
                          ![first].query_filter = json_dumps(form.filter),
                          ![first].query_dsl = json_dumps(form.dsl)]

\* POST /sketches/:sketch_id/explore/
ExploreResource_post(user, sketch_id, form, matched) ==
    LET indices == resolve_indices(form.filter, sketch_id)
        result == es_search(matched, indices)
    IN
    /\ request' = Request("ExploreResource.post", user, sketch_id, 0, form)
    /\ IF ~get_with_acl(sketch_id, user)
       THEN /\ response' = Reply(HTTP_STATUS_CODE_NOT_FOUND)
            /\ ds_calls' = <<>>
            /\ UNCHANGED views
       ELSE IF ~form.valid
       THEN /\ response' = Reply(HTTP_STATUS_CODE_BAD_REQUEST)
            /\ ds_calls' = <<>>
            /\ UNCHANGED views
       ELSE IF ~explore_has_criteria(form)
       THEN /\ response' = Reply(HTTP_STATUS_CODE_BAD_REQUEST)
            /\ ds_calls' = <<>>
            /\ UNCHANGED views
       ELSE /\ ds_calls' = << [call |-> "search", sketch_id |-> sketch_id,
                               indices |-> indices] >>
            /\ views' = upsert_user_state_view(user, sketch_id, form)
            /\ response' = Body(HTTP_STATUS_CODE_OK, {"meta", "objects"}, "list",
                                 [i \in 1..Len(result) |->
                                     explore_event(result[i], sketch_id)])
    /\ UNCHANGED <<searchtemplates, stories, timelines, searchindices, events,
                   es_labels, jobs, now, inflight>>

\* POST /sketches/:sketch_id/aggregation/
AggregationResource_post(user, sketch_id, form) ==
    LET indices == resolve_indices(form.filter, sketch_id)
    IN
    /\ request' = Request("AggregationResource.post", user, sketch_id, 0, form)
    /\ IF ~get_with_acl(sketch_id, user)
       THEN /\ response' = Reply(HTTP_STATUS_CODE_NOT_FOUND)
            /\ ds_calls' = <<>>
       ELSE IF ~form.valid
       THEN /\ response' = Reply(HTTP_STATUS_CODE_BAD_REQUEST)
            /\ ds_calls' = <<>>
       ELSE IF ~aggregation_has_criteria(form)
       THEN /\ response' = Reply(HTTP_STATUS_CODE_BAD_REQUEST)
            /\ ds_calls' = <<>>
       ELSE IF form.aggtype \in {"heatmap", "histogram"}
       THEN /\ ds_calls' = << [call |-> form.aggtype, sketch_id |-> sketch_id,
                               indices |-> indices] >>
            /\ response' = Body(HTTP_STATUS_CODE_OK, {"objects"}, "list", <<>>)
       ELSE /\ response' = Reply(HTTP_STATUS_CODE_BAD_REQUEST)
            /\ ds_calls' = <<>>
    /\ UNCHANGED <<views, searchtemplates, stories, timelines, searchindices,
                   events, es_labels, jobs, now, inflight>>

\* GET /sketches/:sketch_id/event/?searchindex_id=...&event_id=... ; the
\* datastore answers not-found for a document it does not hold.
EventResource_get(user, sketch_id, searchindex_id, event_id) ==
    LET doc == <<searchindex_id, event_id>>
    IN
    /\ request' = Request("EventResource.get", user, sketch_id, 0,
                          [valid |-> TRUE, searchindex_id |-> searchindex_id,
                           event_id |-> event_id])
    /\ IF ~get_with_acl(sketch_id, user)
       THEN /\ response' = Reply(HTTP_STATUS_CODE_NOT_FOUND)
            /\ ds_calls' = <<>>
       ELSE IF searchindex_id \notin sketch_indices(sketch_id)
       THEN /\ response' = Reply(HTTP_STATUS_CODE_BAD_REQUEST)
            /\ ds_calls' = <<>>
       ELSE /\ ds_calls' = << [call |-> "get_event", index |-> searchindex_id,
                               id |-> event_id] >>
            /\ response' = IF doc \in Documents
                           THEN Body(HTTP_STATUS_CODE_OK, {"meta", "objects"},
                                     "dict", es_hit(doc).source)
                           ELSE Reply(HTTP_STATUS_CODE_NOT_FOUND)
    /\ UNCHANGED <<views, searchtemplates, stories, timelines, searchindices,
                   events, es_labels, jobs, now, inflight>>

(***************************************************************************)
(* SpecExplore: Explore and Aggregation by every user on every sketch id,  *)
(* with every single selection criterion and with none.  Every document    *)
(* matches every query.                                                    *)
(***************************************************************************)
ExploreForm(valid, query, filter, dsl) ==
    [valid |-> valid, query |-> query, filter |-> filter, dsl |-> dsl]

\* A form with no criterion at all, four with one criterion each (a query
\* string, the star flag, an event list, a raw query), and one that fails
\* validation.
ExploreForms ==
    { ExploreForm(TRUE, "", [limit |-> 40, star |-> FALSE], {}),
      ExploreForm(TRUE, "q", [limit |-> 40,
                              indices |-> IndexList(<<"idx_a", "idx_x">>)], {}),
      ExploreForm(TRUE, "", [limit |-> 40, star |-> TRUE,
                             indices |-> IndexList(<<"_all">>)], {}),
      ExploreForm(TRUE, "", [limit |-> 40, events |-> <<"d1">>], {}),
      ExploreForm(TRUE, "", [limit |-> 40], {"match_all"}),
      ExploreForm(FALSE, "q", [limit |-> 40], {}) }

AggregationForm(valid, query, filter, dsl, aggtype) ==
    [valid |-> valid, query |-> query, filter |-> filter, dsl |-> dsl,
     aggtype |-> aggtype]

AggregationForms ==
    { AggregationForm(TRUE, "", [limit |-> 40, star |-> FALSE], {}, "heatmap"),
      AggregationForm(TRUE, "", [limit |-> 40], {}, "histogram"),
      AggregationForm(TRUE, "q", [limit |-> 40], {}, "histogram"),
      AggregationForm(TRUE, "q", [limit |-> 40], {}, "other"),
      AggregationForm(TRUE, "q", [limit |-> 40,
                                  indices |-> IndexList(<<"idx_a", "idx_x">>)],
                      {}, "heatmap"),
      AggregationForm(TRUE, "q", [limit |-> 40,
                                  indices |-> IndexList(<<"_all">>)],
                      {}, "histogram"),
      AggregationForm(FALSE, "q", [limit |-> 40], {}, "heatmap") }

NextExplore ==
    \E user \in Users, sketch_id \in UrlSketchIds :
        \/ \E form \in ExploreForms :
               ExploreResource_post(user, sketch_id, form, Documents)
        \/ \E form \in AggregationForms :
               AggregationResource_post(user, sketch_id, form)

SpecExplore == Init /\ [][NextExplore]_vars

(***************************************************************************)
(* SpecLabels: Explore over a datastore whose shared document carries any  *)
(* list of labels, of one sketch, of the other, or of both.                *)
(***************************************************************************)
\* The entries the annotation path writes: a label name, the sketch and the
\* user it was set for.
LabelEntries ==
    { [name |-> name, sketch_id |-> sketch_id, user_id |-> Sketches[sketch_id].user] :
          name \in {"__ts_star", "tag"}, sketch_id \in SketchIds }

\* Lists of at most n entries.
RECURSIVE LabelLists(_)
LabelLists(n) ==
    IF n = 0
    THEN {<<>>}
    ELSE LET shorter == LabelLists(n - 1)
         IN shorter \cup
            { Append(list, entry) :
                  list \in {l \in shorter : Len(l) = n - 1},
                  entry \in LabelEntries }

\* The datastore keeps an entry once in a document's list.
DistinctLabelLists ==
    { list \in LabelLists(MaxDocLabels) :
          \A i, j \in 1..Len(list) : i # j => list[i] # list[j] }

InitLabels ==
    /\ request = Request("none", "alice", 0, 0, NoForm)
    /\ response = Reply(0)
    /\ views = <<>>
    /\ searchtemplates = InitSearchTemplates
    /\ stories = <<>>
    /\ timelines = InitTimelines
    /\ searchindices = InitSearchIndices
    /\ events = <<>>
    /\ es_labels \in {NoLabels} \cup
                     { (<<"idx_b", "d2">> :> list) : list \in DistinctLabelLists }
    /\ ds_calls = <<>>
    /\ jobs = {}
    /\ now = 0
    /\ inflight = NoRequests

NextLabels ==
    \E user \in Users, sketch_id \in SketchIds, matched \in SUBSET Documents :
        ExploreResource_post(user, sketch_id,
                             ExploreForm(TRUE, "q", [limit |-> 40], {}), matched)

SpecLabels == InitLabels /\ [][NextLabels]_vars

(***************************************************************************)
(* Event annotation.                                                       *)
(***************************************************************************)
\* The strings a text of this model contains: itself, and for the one
\* composed annotation type the word it is composed of.
Substrings(text) ==
    IF text = "nocomment" THEN {"nocomment", "comment"} ELSE {text}

\* part in text
contains(text, part) == part \in Substrings(text)

\* Python truth of a string: it is not empty.
StringTruthy(text) == text # ""

\* "if u'__ts_star' or u'__ts_hidden' in form.annotation.data": the first
\* operand of `or` is the string __ts_star itself.
label_toggle(annotation) ==
    StringTruthy("__ts_star") \/ contains(annotation, "__ts_hidden")

\* datastore.set_label: with toggle, the entry is removed when the document
\* has it and added when not; without, it is added when the document has it
\* not.
es_set_label(labels, doc, entry, toggle) ==
    LET current == IF doc \in DOMAIN labels THEN labels[doc] ELSE <<>>
        present == \E i \in 1..Len(current) : current[i] = entry
        updated == IF ~present
                   THEN Append(current, entry)
                   ELSE IF toggle
                   THEN SelectSeq(current, LAMBDA e : e # entry)
                   ELSE current
    IN [d \in DOMAIN labels \cup {doc} |-> IF d = doc THEN updated ELSE labels[d]]

\* SearchIndex.query.filter_by(index_name=...).first(): its id, 0 for None.
searchindex_by_name(index_name) ==
    LET found == {i \in DOMAIN searchindices :
                     searchindices[i].index_name = index_name}
    IN IF found = {} THEN 0 ELSE CHOOSE i \in found : \A j \in found : i <= j

\* Event.get_or_create(sketch, searchindex, document_id): the first row with
\* the key, or a new row, inserted at once.  The table and the row's id.
event_get_or_create(table, sketch_id, searchindex, document_id) ==
    LET found == {i \in DOMAIN table : /\ table[i].sketch_id = sketch_id
                                       /\ table[i].searchindex = searchindex
                                       /\ table[i].document_id = document_id}
    IN IF found = {}
       THEN [table |-> Append(table, [sketch_id |-> sketch_id,
                                      searchindex |-> searchindex,
                                      document_id |-> document_id,
                                      comments |-> <<>>, labels |-> <<>>]),
             id |-> Len(table) + 1]
       ELSE [table |-> table,
             id |-> CHOOSE i \in found : \A j \in found : i <= j]

\* One turn of the loop, in a single transaction with the turns before it:
\* the abort on an index of another sketch undoes them.
annotate_event_rollback(st, user, sketch_id, form, ref) ==
    LET indices == sketch_indices(sketch_id)
        got == event_get_or_create(st.events, sketch_id,
                                   searchindex_by_name(ref.index), ref.id)
        doc == <<ref.index, ref.id>>
        set_label(label, toggle) ==
            [call |-> "set_label", index |-> ref.index, id |-> ref.id,
             sketch_id |-> sketch_id, user_id |-> user, label |-> label,
             toggle |-> toggle]
        entry(label) == [name |-> label, sketch_id |-> sketch_id, user_id |-> user]
        annotation == [label |-> form.annotation, user |-> user]
        labels == got.table[got.id].labels
    IN IF ref.index \notin indices
       THEN [events |-> events, es_labels |-> es_labels, calls |-> <<>>,
             status |-> HTTP_STATUS_CODE_BAD_REQUEST]
       ELSE IF contains(form.annotation_type, "comment")
       THEN [st EXCEPT
               !.events = [got.table EXCEPT ![got.id].comments =
                              Append(@, [comment |-> form.annotation, user |-> user])],
               !.calls = Append(@, set_label("__ts_comment", FALSE)),
               !.es_labels = es_set_label(@, doc, entry("__ts_comment"), FALSE)]
       ELSE IF contains(form.annotation_type, "label")
       THEN [st EXCEPT
               !.events = IF \E i \in 1..Len(labels) : labels[i] = annotation
                          THEN got.table
                          ELSE [got.table EXCEPT ![got.id].labels =
                                                     Append(@, annotation)],
               !.calls = Append(@, set_label(form.annotation,
                                             label_toggle(form.annotation))),
               !.es_labels = es_set_label(@, doc, entry(form.annotation),
                                          label_toggle(form.annotation))]
       ELSE [st EXCEPT !.events = got.table,
                       !.status = HTTP_STATUS_CODE_BAD_REQUEST]

\* One turn of the loop over the events of an annotation request.  `st` is
\* what the turns before left: the Event table, the datastore's labels, the
\* datastore calls made, and the status (0 while the loop runs).
annotate_event(st, user, sketch_id, form, ref) ==
    LET indices == sketch_indices(sketch_id)
        got == event_get_or_create(st.events, sketch_id,
                                   searchindex_by_name(ref.index), ref.id)
        doc == <<ref.index, ref.id>>
        set_label(label, toggle) ==
            [call |-> "set_label", index |-> ref.index, id |-> ref.id,
             sketch_id |-> sketch_id, user_id |-> user, label |-> label,
             toggle |-> toggle]
        entry(label) == [name |-> label, sketch_id |-> sketch_id, user_id |-> user]
        annotation == [label |-> form.annotation, user |-> user]
        labels == got.table[got.id].labels
    IN IF ref.index \notin indices
       THEN [st EXCEPT !.status = HTTP_STATUS_CODE_BAD_REQUEST]
       ELSE IF contains(form.annotation_type, "comment")
       THEN [st EXCEPT
               !.events = [got.table EXCEPT ![got.id].comments =
                              Append(@, [comment |-> form.annotation, user |-> user])],
               !.calls = Append(@, set_label("__ts_comment", FALSE)),
               !.es_labels = es_set_label(@, doc, entry("__ts_comment"), FALSE)]
       ELSE IF contains(form.annotation_type, "label")
       THEN [st EXCEPT
               !.events = IF \E i \in 1..Len(labels) : labels[i] = annotation
                          THEN got.table
                          ELSE [got.table EXCEPT ![got.id].labels =
                                                     Append(@, annotation)],
               !.calls = Append(@, set_label(form.annotation,
                                             label_toggle(form.annotation))),
               !.es_labels = es_set_label(@, doc, entry(form.annotation),
                                          label_toggle(form.annotation))]
       ELSE [st EXCEPT !.events = got.table,
                       !.status = HTTP_STATUS_CODE_BAD_REQUEST]

\* The loop: it stops at the first turn that aborts.
RECURSIVE annotate_events(_, _, _, _, _)
annotate_events(st, user, sketch_id, form, refs) ==
    IF refs = <<>> \/ st.status # 0
    THEN st
    ELSE annotate_events(annotate_event(st, user, sketch_id, form, Head(refs)),
                         user, sketch_id, form, Tail(refs))

\* POST /sketches/:sketch_id/event/annotate/
EventAnnotationResource_post(user, sketch_id, form) ==
    LET done == annotate_events([events |-> events, es_labels |-> es_labels,
                                 calls |-> <<>>, status |-> 0],
                                user, sketch_id, form, form.events)
    IN
    /\ request' = Request("EventAnnotationResource.post", user, sketch_id, 0, form)
    /\ IF ~form.valid
       THEN /\ response' = Reply(HTTP_STATUS_CODE_BAD_REQUEST)
            /\ ds_calls' = <<>>
            /\ UNCHANGED <<events, es_labels>>
       ELSE IF ~get_with_acl(sketch_id, user)
       THEN /\ response' = Reply(HTTP_STATUS_CODE_NOT_FOUND)
            /\ ds_calls' = <<>>
            /\ UNCHANGED <<events, es_labels>>
       ELSE /\ events' = done.events
            /\ es_labels' = done.es_labels
            /\ ds_calls' = done.calls
            /\ response' = Reply(IF done.status = 0 THEN HTTP_STATUS_CODE_CREATED
                                                    ELSE done.status)
    /\ UNCHANGED <<views, searchtemplates, stories, timelines, searchindices, jobs, now, inflight>>

(***************************************************************************)
(* SpecAnnotate: annotation of the shared document, and of a document of   *)
(* an index of no sketch, with every annotation type, by every user.       *)
(***************************************************************************)
EventAnnotationForm(valid, annotation_type, annotation, refs) ==
    [valid |-> valid, annotation_type |-> annotation_type,
     annotation |-> annotation, events |-> refs]

EventRef(index, id) == [index |-> index, id |-> id, type |-> "plaso_event"]

AnnotationForms ==
    { EventAnnotationForm(TRUE, "label", annotation, <<EventRef("idx_b", "d2")>>) :
          annotation \in {"__ts_star", "__ts_hidden", "tag"} }
    \cup
    { EventAnnotationForm(TRUE, "comment", "note", <<EventRef("idx_b", "d2")>>),
      EventAnnotationForm(TRUE, "other", "tag", <<EventRef("idx_b", "d2")>>),
      EventAnnotationForm(TRUE, "nocomment", "note", <<EventRef("idx_b", "d2")>>),
      EventAnnotationForm(TRUE, "label", "tag",
                          <<EventRef("idx_b", "d2"), EventRef("idx_x", "d9")>>),
      EventAnnotationForm(FALSE, "label", "tag", <<EventRef("idx_b", "d2")>>) }

NextAnnotate ==
    \E user \in Users, sketch_id \in UrlSketchIds, form \in AnnotationForms :
        /\ EventAnnotationResource_post(user, sketch_id, form)
        /\ Len(events') <= MaxEvents
        /\ \A e \in DOMAIN events' : /\ Len(events'[e].comments) <= MaxAnnotations
                                      /\ Len(events'[e].labels) <= MaxAnnotations
        /\ \A d \in DOMAIN es_labels' : Len(es_labels'[d]) <= MaxAnnotations

SpecAnnotate == Init /\ [][NextAnnotate]_vars

(***************************************************************************)
(* Upload.                                                                 *)
(***************************************************************************)
\* The task of each file extension.
task_directory == [plaso |-> "run_plaso", csv |-> "run_csv"]

\* unicode(uuid.uuid4().hex): a name no earlier call returned; `n` counts
\* the calls.
uuid4(n) == "uuid" \o ToString(n)

\* A dispatch that leaves the job id to the task queue.
apply_async_queue_id(task, timeline_name, index_name, username, task_id) ==
    [task_id |-> "celery-" \o index_name, task |-> task,
     timeline_name |-> timeline_name, index_name |-> index_name,
     username |-> username]

\* task.apply_async((file_path, timeline_name, index_name, username),
\*                  task_id=...): the job the task queue holds.
apply_async(task, timeline_name, index_name, username, task_id) ==
    [task_id |-> task_id, task |-> task,
     timeline_name |-> timeline_name, index_name |-> index_name,
     username |-> username]

\* POST /upload/
UploadFileResource_post(user, form, UPLOAD_ENABLED) ==
    LET sketch_id == form.sketch_id
        file_extension == form.file.extension
        timeline_name == IF form.name # "" THEN form.name ELSE form.file.filename
        index_name == uuid4(Len(searchindices) + 1)
        searchindex == [index_name |-> index_name, name |-> timeline_name,
                        user |-> user, status |-> "processing",
                        grants |-> full_grants(user), updated_at |-> now]
        timeline == [sketch_id |-> sketch_id,
                     searchindex |-> Len(searchindices) + 1, user |-> user]
    IN
    /\ request' = Request("UploadFileResource.post", user, sketch_id, 0, form)
    /\ ds_calls' = <<>>
    /\ IF ~(form.valid /\ UPLOAD_ENABLED)
       THEN /\ response' = Reply(IF form.file_error
                                 THEN HTTP_STATUS_CODE_BAD_REQUEST
                                 ELSE HTTP_STATUS_CODE_SERVER_ERROR)
            /\ UNCHANGED <<searchindices, timelines, jobs>>
       ELSE IF sketch_id # 0 /\ ~get_with_acl(sketch_id, user)
       THEN /\ response' = Reply(HTTP_STATUS_CODE_NOT_FOUND)
            /\ UNCHANGED <<searchindices, timelines, jobs>>
       ELSE /\ searchindices' = Append(searchindices, searchindex)
            /\ timelines' = IF sketch_id # 0 /\ has_permission(sketch_id, user, "write")
                            THEN Append(timelines, timeline)
                            ELSE timelines
            /\ IF file_extension \in DOMAIN task_directory
               THEN /\ jobs' = jobs \cup {apply_async(task_directory[file_extension],
                                                       timeline_name, index_name,
                                                       user, index_name)}
                    /\ response' = Reply(HTTP_STATUS_CODE_CREATED)
               ELSE /\ jobs' = jobs
                    /\ response' = Reply(HTTP_STATUS_CODE_SERVER_ERROR)
    /\ UNCHANGED <<views, searchtemplates, stories, events, es_labels, now, inflight>>

(***************************************************************************)
(* SpecUpload: uploads of files of the two known extensions and of an      *)
(* unknown one, with and without a sketch, with uploads enabled and not.   *)
(***************************************************************************)
UploadFileForm(valid, file_error, filename, extension, name, sketch_id) ==
    [valid |-> valid, file_error |-> file_error,
     file |-> [filename |-> filename, extension |-> extension],
     name |-> name, sketch_id |-> sketch_id]

UploadFileForms ==
    { UploadFileForm(TRUE, FALSE, "evidence", extension, name, sketch_id) :
          extension \in {"plaso", "csv", "txt"}, name \in {"", "tl"},
          sketch_id \in {0} \cup UrlSketchIds }
    \cup
    { UploadFileForm(FALSE, file_error, "evidence", "plaso", "tl", 1) :
          file_error \in BOOLEAN }

NextUpload ==
    \E user \in Users, form \in UploadFileForms, UPLOAD_ENABLED \in BOOLEAN :
        /\ Len(searchindices) < Len(InitSearchIndices) + MaxUploads
        /\ UploadFileResource_post(user, form, UPLOAD_ENABLED)

SpecUpload == Init /\ [][NextUpload]_vars

(***************************************************************************)
(* Task status polling.                                                    *)
(***************************************************************************)
\* current_app.config.get(u'CELERY_TASK_TIMEOUT', 7200)
TIMEOUT_THRESHOLD_SECONDS == 7200

SecondsPerDay == 86400

\* The states a job of the task queue reports.
JobStates == {"PENDING", "STARTED", "SUCCESS"}

\* datetime.timedelta(seconds=delta).seconds: a timedelta is kept as days,
\* which may be negative, and seconds of the day, which are not.
timedelta_seconds(delta) == delta % SecondsPerDay

\* The ids of every SearchIndex of the user, whatever its status.
indices_of_user(user) ==
    {i \in DOMAIN searchindices : searchindices[i].user = user}

\* SearchIndex.query.filter(SearchIndex.status.any(status=u'processing'))
\*     .filter_by(user=current_user).all()
processing_indices(user) ==
    {i \in DOMAIN searchindices : /\ searchindices[i].status = "processing"
                                  /\ searchindices[i].user = user}

\* The row after the loop body: a job reported PENDING sets the status to
\* timeout when the seconds of updated_at - now exceed the threshold.
polled_index(search_index, state) ==
    LET time_pending == search_index.updated_at - now
    IN IF /\ state = "PENDING"
          /\ timedelta_seconds(time_pending) > TIMEOUT_THRESHOLD_SECONDS
       THEN [search_index EXCEPT !.status = "timeout"]
       ELSE search_index

\* The dict the response carries for one polled index.
task_of(search_index, state) ==
    [task_id |-> search_index.index_name, state |-> state,
     successful |-> (state = "SUCCESS"), name |-> search_index.name,
     result |-> (state = "SUCCESS")]

\* GET /tasks/ ; `celery_state` is what the task queue reports for the job of
\* each selected index.
TaskResource_get(user, celery_state) ==
    LET selected == processing_indices(user)
        order == SelectSeq([i \in DOMAIN searchindices |-> i],
                           LAMBDA i : i \in selected)
    IN
    /\ request' = Request("TaskResource.get", user, 0, 0,
                          [valid |-> TRUE, celery_state |-> celery_state])
    /\ searchindices' = [i \in DOMAIN searchindices |->
                            IF i \in selected
                            THEN polled_index(searchindices[i], celery_state[i])
                            ELSE searchindices[i]]
    /\ response' = Body(HTTP_STATUS_CODE_OK, {"objects", "meta"}, "list",
                         [k \in DOMAIN order |->
                             task_of(searchindices[order[k]],
                                     celery_state[order[k]])])
    /\ ds_calls' = <<>>
    /\ UNCHANGED <<views, searchtemplates, stories, timelines, events, es_labels,
                   jobs, now, inflight>>

\* Time passes.
Tick(seconds) ==
    /\ now' = now + seconds
    /\ UNCHANGED <<request, response, views, searchtemplates, stories, timelines,
                   searchindices, events, es_labels, ds_calls, jobs, inflight>>

(***************************************************************************)
(* SpecTask: uploads, polls of the uploading users, and the clock.         *)
(***************************************************************************)
\* The clock advances by three hours, or by an hour less than a day.
ClockSteps == {3 * 3600, SecondsPerDay - 3600}

TaskUploadForms ==
    { UploadFileForm(TRUE, FALSE, "evidence", extension, "", 0) :
          extension \in {"plaso", "txt"} }

NextTask ==
    \/ \E user \in Users, form \in TaskUploadForms :
          /\ Len(searchindices) < Len(InitSearchIndices) + MaxUploads
          /\ UploadFileResource_post(user, form, TRUE)
    \/ \E user \in Users :
          \E celery_state \in [processing_indices(user) -> JobStates] :
              TaskResource_get(user, celery_state)
    \/ \E seconds \in ClockSteps :
          /\ now + seconds <= MaxClock
          /\ Tick(seconds)

SpecTask == Init /\ [][NextTask]_vars

(***************************************************************************)
(* Explore, aggregation, annotation and upload: the properties.            *)
(***************************************************************************)
\* The form supplies no query string, no star flag, no event list and no
\* raw query.
SuppliesNoCriterion(form) ==
    /\ form.query = ""
    /\ form.dsl = {}
    /\ ~dict_get(form.filter, "star", FALSE)
    /\ dict_get(form.filter, "events", <<>>) = <<>>

\* C6: an Explore request with a valid form that supplies none of query
\* string, star flag, event list and raw query is answered 400, sends no
\* search to the datastore and leaves the View table as it was.
C6_NoCriterionExploreRejected ==
    [][ ( /\ request'.op = "ExploreResource.post"
          /\ get_with_acl(request'.sketch_id, request'.user)
          /\ request'.form.valid
          /\ SuppliesNoCriterion(request'.form) )
        => ( /\ response'.status = HTTP_STATUS_CODE_BAD_REQUEST
             /\ ds_calls' = <<>>
             /\ views' = views ) ]_vars

\* C7: an Aggregation request with a valid form that supplies none of
\* query string, star flag, event list and raw query is answered 400 and
\* no aggregation is run on the datastore, whatever its aggregation name.
C7_NoCriterionAggregationRejected ==
    ( /\ request.op = "AggregationResource.post"
      /\ get_with_acl(request.sketch_id, request.user)
      /\ request.form.valid
      /\ SuppliesNoCriterion(request.form) )
    => ( /\ response.status = HTTP_STATUS_CODE_BAD_REQUEST
         /\ ds_calls = <<>> )

\* The label entries the datastore holds for the document of a returned
\* event.
StoredLabels(event) ==
    IF <<event.index, event.id>> \in DOMAIN es_labels
    THEN es_labels[<<event.index, event.id>>]
    ELSE <<>>

\* The stored entries of the sketch of the request path, in their order.
OwnLabels(event) ==
    SelectSeq(StoredLabels(event), LAMBDA entry : entry.sketch_id = request.sketch_id)

\* C8: every event an Explore response returns carries in `label` exactly
\* the names of the document's label entries of the sketch of the request
\* path, in their order, and carries no field timesketch_label.
C8_OnlyLabelsOfPathSketch ==
    ( request.op = "ExploreResource.post" /\ response.status = HTTP_STATUS_CODE_OK )
    => \A i \in DOMAIN response.objects :
          LET event == response.objects[i]
          IN /\ "timesketch_label" \notin DOMAIN event.source
             /\ Len(event.source.label) = Len(OwnLabels(event))
             /\ \A k \in 1..Len(OwnLabels(event)) :
                   event.source.label[k] = OwnLabels(event)[k].name

\* An Explore response returned an event whose document carries a label of
\* another sketch next to one of the sketch of the request path.
C8_Witness ==
    /\ request.op = "ExploreResource.post"
    /\ response.status = HTTP_STATUS_CODE_OK
    /\ \E i \in DOMAIN response.objects :
          LET event == response.objects[i]
          IN /\ \E k \in 1..Len(StoredLabels(event)) :
                   StoredLabels(event)[k].sketch_id # request.sketch_id
             /\ Len(event.source.label) = 1
             /\ Len(StoredLabels(event)) = 2

\* C9: an annotation of type "label" mirrors into a set_label call whose
\* toggle is true when the label text is __ts_star or __ts_hidden, and
\* false for every other label text.
C9_ToggleOnlyForStarAndHidden ==
    ( request.op = "EventAnnotationResource.post"
      /\ request.form.annotation_type = "label" )
    => \A i \in DOMAIN ds_calls :
          ds_calls[i].call = "set_label"
          => ( ds_calls[i].toggle <=> ds_calls[i].label \in {"__ts_star", "__ts_hidden"} )

\* C10: an upload of a file whose extension has no task fails, dispatches
\* no job, and leaves behind no new SearchIndex and no new Timeline.
C10_UnknownExtensionLeavesNothing ==
    [][ ( /\ request'.op = "UploadFileResource.post"
          /\ request'.form.file.extension \notin DOMAIN task_directory )
        => ( /\ response'.status \notin {HTTP_STATUS_CODE_OK, HTTP_STATUS_CODE_CREATED}
             /\ jobs' = jobs
             /\ searchindices' = searchindices
             /\ timelines' = timelines ) ]_vars

(***************************************************************************)
(* Task polling and upload ordering: the properties, under SpecTask.       *)
(***************************************************************************)
\* The step is a poll: every request leaves the clock alone, and only a poll
\* leaves a poll as the last request.
PollStep == request'.op = "TaskResource.get" /\ now' = now

\* C11: a poll sets to timeout every index of the acting user that is
\* marked processing, whose job reports PENDING and whose last update is
\* more than the threshold ago, however long ago that is.
C11_PendingPastThresholdTimesOut ==
    [][ PollStep
        => \A i \in DOMAIN searchindices :
              ( /\ searchindices[i].user = request'.user
                /\ searchindices[i].status = "processing"
                /\ request'.form.celery_state[i] = "PENDING"
                /\ now - searchindices[i].updated_at > TIMEOUT_THRESHOLD_SECONDS )
              => searchindices'[i].status = "timeout" ]_vars

\* C12: an index whose status is timeout keeps it in every step, and no
\* poll lists it among the processing ones.
C12_TimeoutIsTerminal ==
    [][ \A i \in DOMAIN searchindices :
           searchindices[i].status = "timeout"
           => /\ searchindices'[i].status = "timeout"
              /\ PollStep
                 => /\ i \notin DOMAIN request'.form.celery_state
                    /\ \A k \in DOMAIN response'.objects :
                          response'.objects[k].task_id # searchindices[i].index_name
      ]_vars

\* The owner of an index that timed out polled again, and the answer lists
\* another index of theirs but not that one.
C12_Witness ==
    /\ request.op = "TaskResource.get"
    /\ \E i \in DOMAIN searchindices :
          /\ searchindices[i].status = "timeout"
          /\ searchindices[i].user = request.user
          /\ \A k \in DOMAIN response.objects :
                response.objects[k].task_id # searchindices[i].index_name
    /\ response.objects # <<>>

\* The SearchIndex rows whose index name is the id of the job.
RecordsOfJob(job) ==
    {i \in DOMAIN searchindices : searchindices[i].index_name = job.task_id}

C13_OnlyAuthorEditsStory ==
    [][ ( /\ request'.op = "StoryResource.post"
          /\ request'.id \in DOMAIN stories
          /\ stories[request'.id].user # request'.user )
        => ( /\ stories'[request'.id].title = stories[request'.id].title
             /\ stories'[request'.id].content = stories[request'.id].content )
      ]_vars

(***************************************************************************)
(* Index resolution, under SpecExplore.                                    *)
(***************************************************************************)
\* The index names the filter of the last request asks for.
RequestedIndices ==
    IF "indices" \in DOMAIN request.form.filter
    THEN {request.form.filter.indices.items[i] :
              i \in 1..Len(request.form.filter.indices.items)}
    ELSE {}

\* The index names of the timelines of the sketch of the last request.
TimelineIndices ==
    {searchindices[timelines[t].searchindex].index_name :
        t \in {u \in DOMAIN timelines : timelines[u].sketch_id = request.sketch_id}}

\* C14: every search and aggregation the datastore is asked for runs on
\* index names of the sketch's own timelines only; on all of them when the
\* filter names _all or has no `indices`, and on the named ones that are
\* the sketch's otherwise.
C14_OnlyIndicesOfTheSketch ==
    \A i \in DOMAIN ds_calls :
        ds_calls[i].call \in {"search", "heatmap", "histogram"}
        => /\ ds_calls[i].indices \subseteq TimelineIndices
           /\ ds_calls[i].indices =
                 IF \/ "indices" \notin DOMAIN request.form.filter
                    \/ "_all" \in RequestedIndices
                 THEN TimelineIndices
                 ELSE RequestedIndices \cap TimelineIndices

\* A search on sketch 2 and a heatmap on sketch 1 were asked for with the
\* filter naming idx_a and an index of no sketch.
C14_Witness ==
    /\ request.op \in {"ExploreResource.post", "AggregationResource.post"}
    /\ RequestedIndices = {"idx_a", "idx_x"}
    /\ \/ /\ request.sketch_id = 2
          /\ ds_calls = << [call |-> "search", sketch_id |-> 2, indices |-> {}] >>
       \/ /\ request.sketch_id = 1
          /\ ds_calls = << [call |-> "heatmap", sketch_id |-> 1,
                            indices |-> {"idx_a"}] >>

(***************************************************************************)
(* SpecEnvelope: one handler of every way this layer builds a successful   *)
(* response: to_json, jsonify of a schema, and a bare status.              *)
(***************************************************************************)
NextEnvelope ==
    \E user \in Users, sketch_id \in UrlSketchIds :
        \/ /\ Len(views) < MaxEntityViews
           /\ \E form \in EntityViewForms : ViewListResource_post(user, sketch_id, form)
        \/ \E view_id \in 1..MaxEntityViews : ViewResource_delete(user, sketch_id, view_id)
        \/ \E timeline_id \in DOMAIN timelines :
               TimelineResource_delete(user, sketch_id, timeline_id)
        \/ \E form \in AggregationForms :
               AggregationResource_post(user, sketch_id, form)
        \/ \E searchindex_id \in {"idx_a", "idx_x"}, event_id \in {"d1", "d9"} :
               EventResource_get(user, sketch_id, searchindex_id, event_id)
        \/ \E celery_state \in [processing_indices(user) -> JobStates] :
               TaskResource_get(user, celery_state)

SpecEnvelope == Init /\ [][NextEnvelope]_vars

\* C16: the body of every successful response is an object with the keys
\* meta and objects, and its objects is a list.
C16_SuccessIsEnvelopeWithList ==
    response.status \in {HTTP_STATUS_CODE_OK, HTTP_STATUS_CODE_CREATED}
    => /\ response.keys = {"meta", "objects"}
       /\ response.objects_type = "list"

(***************************************************************************)
(* Annotation, under SpecAnnotate.                                         *)
(***************************************************************************)
\* C17: an annotation request with a valid form whose annotation type is
\* neither "comment" nor "label" is answered 400 and changes nothing: no
\* Event row, no Comment, no Label, no call to the datastore.
C17_UnknownTypeRejectedBeforeMutation ==
    [][ ( /\ request'.op = "EventAnnotationResource.post"
          /\ request'.form.valid
          /\ get_with_acl(request'.sketch_id, request'.user)
          /\ request'.form.annotation_type \notin {"comment", "label"} )
        => ( /\ response'.status = HTTP_STATUS_CODE_BAD_REQUEST
             /\ events' = events
             /\ es_labels' = es_labels
             /\ ds_calls' = <<>> ) ]_vars

(***************************************************************************)
(* SpecTransient: Explore, which upserts the last-state View of the user   *)
(* in the sketch, next to the creation and the update of named views.      *)
(***************************************************************************)
TransientExploreForms ==
    { ExploreForm(TRUE, "q", [limit |-> 40], {}),
      ExploreForm(TRUE, "", [limit |-> 40, star |-> TRUE], {"match_all"}) }

TransientViewForms ==
    { SaveViewForm(TRUE, "v", "q1", [limit |-> 40], {}, 0, FALSE) }

NextTransient ==
    \E user \in Users, sketch_id \in UrlSketchIds :
        \/ /\ \E form \in TransientExploreForms :
                 ExploreResource_post(user, sketch_id, form, Documents)
           /\ Len(views') <= MaxTransientViews
        \/ /\ Len(views) < MaxTransientViews
           /\ \E form \in TransientViewForms :
                 ViewListResource_post(user, sketch_id, form)
        \/ \E view_id \in 1..MaxTransientViews, form \in TransientViewForms :
               ViewResource_post(user, sketch_id, view_id, form)

SpecTransient == Init /\ [][NextTransient]_vars

\* The views without a name of one user in one sketch.
TransientViews(table, sketch_id, user) ==
    {i \in DOMAIN table : /\ table[i].name = ""
                          /\ table[i].sketch_id = sketch_id
                          /\ table[i].user = user}

\* C18: each user has at most one view without a name in each sketch.
C18_OneTransientViewPerPair ==
    \A sketch_id \in SketchIds, user \in Users :
        Cardinality(TransientViews(views, sketch_id, user)) <= 1

\* C19: after a successful Explore a view without a name of the caller in
\* the sketch holds the query string, the filter and the raw query of the
\* call, and an identical call right after it changes no View and adds none.
C19_ExploreUpsertIsIdempotent ==
    [][ ( request'.op = "ExploreResource.post"
          /\ response'.status = HTTP_STATUS_CODE_OK )
        => /\ \E i \in TransientViews(views', request'.sketch_id, request'.user) :
                 /\ views'[i].query_string = request'.form.query
                 /\ json_loads(views'[i].query_filter) = request'.form.filter
                 /\ json_loads(views'[i].query_dsl) = request'.form.dsl
           /\ Len(views') \in {Len(views), Len(views) + 1}
           /\ ( request = request' /\ response.status = HTTP_STATUS_CODE_OK )
              => views' = views ]_vars

\* Two users explored the same sketch: each has a last-state view, and the
\* one of the last caller holds the raw query of the call.
C19_Witness ==
    /\ request.op = "ExploreResource.post"
    /\ response.status = HTTP_STATUS_CODE_OK
    /\ request.form.dsl = {"match_all"}
    /\ Len(views) = 2
    /\ \A i \in DOMAIN views : views[i].name = "" /\ views[i].sketch_id = 1
    /\ views[1].user # views[2].user
    /\ \E i \in TransientViews(views, 1, request.user) :
          /\ json_loads(views[i].query_dsl) = {"match_all"}
          /\ views[3 - i].query_string = "q"

(***************************************************************************)
(* SpecPartial: annotation requests with several event references, some of *)
(* an index of no timeline of the sketch.                                  *)
(***************************************************************************)
PartialForms ==
    { EventAnnotationForm(TRUE, "label", "tag", <<EventRef("idx_b", "d2")>>),
      EventAnnotationForm(TRUE, "comment", "note", <<EventRef("idx_b", "d2")>>),
      EventAnnotationForm(TRUE, "label", "tag",
                          <<EventRef("idx_b", "d2"), EventRef("idx_x", "d9")>>),
      EventAnnotationForm(TRUE, "label", "tag",
                          <<EventRef("idx_a", "d1"), EventRef("idx_b", "d2"),
                            EventRef("idx_x", "d9")>>),
      EventAnnotationForm(TRUE, "comment", "note",
                          <<EventRef("idx_b", "d2"), EventRef("idx_x", "d9"),
                            EventRef("idx_a", "d1")>>) }

NextPartial ==
    \E user \in Users, sketch_id \in UrlSketchIds, form \in PartialForms :
        /\ EventAnnotationResource_post(user, sketch_id, form)
        /\ Len(events') <= MaxEvents
        /\ \A e \in DOMAIN events' : /\ Len(events'[e].comments) <= MaxAnnotations
                                      /\ Len(events'[e].labels) <= MaxAnnotations
        /\ \A d \in DOMAIN es_labels' : Len(es_labels'[d]) <= MaxAnnotations

SpecPartial == Init /\ [][NextPartial]_vars

\* The position of the first reference to an index of no timeline of the
\* sketch, 0 when there is none.
FirstForeign(refs, sketch_id) ==
    LET foreign == {i \in 1..Len(refs) :
                       refs[i].index \notin sketch_indices(sketch_id)}
    IN IF foreign = {} THEN 0 ELSE CHOOSE i \in foreign : \A j \in foreign : i <= j

\* The Event rows of a reference in a sketch.
EventRows(table, sketch_id, ref) ==
    {i \in DOMAIN table : /\ table[i].sketch_id = sketch_id
                          /\ table[i].searchindex = searchindex_by_name(ref.index)
                          /\ table[i].document_id = ref.id}

\* The row carries the Comment or the Label of the form.
Annotated(row, form, user) ==
    IF form.annotation_type = "comment"
    THEN \E c \in 1..Len(row.comments) :
             row.comments[c] = [comment |-> form.annotation, user |-> user]
    ELSE \E l \in 1..Len(row.labels) :
             row.labels[l] = [label |-> form.annotation, user |-> user]

\* The datastore's labels after the set_label calls of a request.
RECURSIVE Mirrored(_, _)
Mirrored(labels, calls) ==
    IF calls = <<>>
    THEN labels
    ELSE LET c == Head(calls)
         IN Mirrored(es_set_label(labels, <<c.index, c.id>>,
                                  [name |-> c.label, sketch_id |-> c.sketch_id,
                                   user_id |-> c.user_id], c.toggle),
                     Tail(calls))

\* C20: when the k-th event reference of an annotation request names an
\* index of no timeline of the sketch, the answer is 400, the references
\* before it keep their Event row, their Comment or Label and their
\* set_label write to the datastore, and the k-th and later references get
\* no Event row, no annotation and no datastore write.
C20_EarlierAnnotationsStayCommitted ==
    [][ LET refs == request'.form.events
            sketch_id == request'.sketch_id
            user == request'.user
            k == FirstForeign(refs, sketch_id)
            doc(j) == <<refs[j].index, refs[j].id>>
        IN ( /\ request'.op = "EventAnnotationResource.post"
             /\ request'.form.valid
             /\ get_with_acl(sketch_id, user)
             /\ request'.form.annotation_type \in {"comment", "label"}
             /\ k > 0 )
           => /\ response'.status = HTTP_STATUS_CODE_BAD_REQUEST
              /\ Len(ds_calls') = k - 1
              /\ es_labels' = Mirrored(es_labels, ds_calls')
              /\ Len(events') <= Len(events) + k - 1
              /\ \A j \in 1..(k - 1) :
                    /\ ds_calls'[j].call = "set_label"
                    /\ <<ds_calls'[j].index, ds_calls'[j].id>> = doc(j)
                    /\ doc(j) \in DOMAIN es_labels'
                    /\ EventRows(events', sketch_id, refs[j]) # {}
                    /\ \A i \in EventRows(events', sketch_id, refs[j]) :
                          Annotated(events'[i], request'.form, user)
              /\ \A j \in k..Len(refs) :
                    (\A i \in 1..(k - 1) : doc(i) # doc(j))
                    => /\ EventRows(events', sketch_id, refs[j])
                            = EventRows(events, sketch_id, refs[j])
                       /\ \A i \in EventRows(events, sketch_id, refs[j]) :
                             events'[i] = events[i]
                       /\ doc(j) \in DOMAIN es_labels' => doc(j) \in DOMAIN es_labels
                       /\ doc(j) \in DOMAIN es_labels
                             => es_labels'[doc(j)] = es_labels[doc(j)] ]_vars

\* The third reference was refused after the first two were annotated: both
\* have their Event row with the Label, and two datastore writes were made.
C20_Witness ==
    /\ request.op = "EventAnnotationResource.post"
    /\ Len(request.form.events) = 3
    /\ FirstForeign(request.form.events, request.sketch_id) = 3
    /\ response.status = HTTP_STATUS_CODE_BAD_REQUEST
    /\ Len(ds_calls) = 2
    /\ Len(events) = 2
    /\ \A i \in DOMAIN events : Annotated(events[i], request.form, request.user)
    /\ \A i \in DOMAIN events : events[i].searchindex # 0

(***************************************************************************)
(* SpecYoung: uploads and polls while the clock stays within the timeout   *)
(* threshold of the first upload.                                          *)
(***************************************************************************)
\* The clock advances by half an hour or by an hour.
YoungClockSteps == {1800, 3600}

NextYoung ==
    \/ \E user \in Users, form \in TaskUploadForms :
          /\ Len(searchindices) < Len(InitSearchIndices) + MaxUploads
          /\ UploadFileResource_post(user, form, TRUE)
    \/ \E user \in Users :
          \E celery_state \in [processing_indices(user) -> JobStates] :
              TaskResource_get(user, celery_state)
    \/ \E seconds \in YoungClockSteps :
          /\ now + seconds <= MaxYoungClock
          /\ Tick(seconds)

SpecYoung == Init /\ [][NextYoung]_vars

\* C23: a poll leaves processing every index of the acting user that is
\* marked processing, whose job reports PENDING and whose last update is at
\* most the threshold ago.
C23_YoungPendingStaysProcessing ==
    [][ PollStep
        => \A i \in DOMAIN searchindices :
              ( /\ searchindices[i].user = request'.user
                /\ searchindices[i].status = "processing"
                /\ request'.form.celery_state[i] = "PENDING"
                /\ now - searchindices[i].updated_at <= TIMEOUT_THRESHOLD_SECONDS )
              => searchindices'[i].status = "processing" ]_vars

(***************************************************************************)
(* Adding timelines to a sketch.                                           *)
(***************************************************************************)
\* SearchIndex.all_with_acl(current_user): the indices the user may read.
all_with_acl(user) ==
    {i \in DOMAIN searchindices : <<user, "read">> \in searchindices[i].grants}

\* The choices of the form: the readable indices that are in no timeline of
\* the sketch.
timeline_choices(user, sketch_id) ==
    all_with_acl(user) \ {timelines[t].searchindex : t \in sketch_timelines(sketch_id)}

\* AddTimelineForm.validate_on_submit: a multiple-choice field accepts only
\* values among its choices.
add_timeline_form_validates(form, choices) ==
    /\ form.valid
    /\ \A i \in 1..Len(form.timelines) : form.timelines[i] \in choices

\* One turn of the loop without the look at the timelines of the sketch.
add_timeline_unchecked(table, user, sketch_id, searchindex_id) ==
    Append(table, [sketch_id |-> sketch_id, searchindex |-> searchindex_id,
                   user |-> user])

\* One turn of the loop: a Timeline for the index, unless a timeline of the
\* sketch, one added in an earlier turn included, is bound to it.
add_timeline(table, user, sketch_id, searchindex_id) ==
    IF searchindex_id \notin {table[t].searchindex :
                                 t \in {u \in DOMAIN table :
                                           table[u].sketch_id = sketch_id}}
    THEN Append(table, [sketch_id |-> sketch_id, searchindex |-> searchindex_id,
                        user |-> user])
    ELSE table

RECURSIVE add_timelines(_, _, _, _)
add_timelines(table, user, sketch_id, ids) ==
    IF ids = <<>>
    THEN table
    ELSE add_timelines(add_timeline(table, user, sketch_id, Head(ids)),
                       user, sketch_id, Tail(ids))

\* POST /sketches/:sketch_id/ ; every id that passed the validation is a
\* readable index, so SearchIndex.query.get_with_acl resolves in each turn.
SketchResource_post(user, sketch_id, form) ==
    /\ request' = Request("SketchResource.post", user, sketch_id, 0, form)
    /\ IF ~get_with_acl(sketch_id, user)
       THEN /\ response' = Reply(HTTP_STATUS_CODE_NOT_FOUND)
            /\ UNCHANGED timelines
       ELSE IF ~add_timeline_form_validates(form, timeline_choices(user, sketch_id))
       THEN /\ response' = Reply(HTTP_STATUS_CODE_BAD_REQUEST)
            /\ UNCHANGED timelines
       ELSE IF ~has_permission(sketch_id, user, "write")
       THEN /\ response' = Reply(HTTP_STATUS_CODE_FORBIDDEN)
            /\ UNCHANGED timelines
       ELSE /\ timelines' = add_timelines(timelines, user, sketch_id, form.timelines)
            /\ response' = Reply(HTTP_STATUS_CODE_CREATED)
    /\ ds_calls' = <<>>
    /\ UNCHANGED <<views, searchtemplates, stories, searchindices, events,
                   es_labels, jobs, now, inflight>>

(***************************************************************************)
(* SpecAddTimeline: sketch 2 holds the index of bob; a third index of bob  *)
(* is readable by alice.  Timelines are added and deleted.                 *)
(***************************************************************************)
SharedSearchIndices ==
    Append(InitSearchIndices,
           [index_name |-> "idx_c", name |-> "c", user |-> "bob",
            status |-> "ready",
            grants |-> full_grants("bob") \cup {<<"alice", "read">>},
            updated_at |-> 0])

InitAddTimeline ==
    /\ request = Request("none", "alice", 0, 0, NoForm)
    /\ response = Reply(0)
    /\ views = <<>>
    /\ searchtemplates = InitSearchTemplates
    /\ stories = <<>>
    /\ timelines = << [sketch_id |-> 2, searchindex |-> 2, user |-> "bob"] >>
    /\ searchindices = SharedSearchIndices
    /\ events = <<>>
    /\ es_labels = NoLabels
    /\ ds_calls = <<>>
    /\ jobs = {}
    /\ now = 0
    /\ inflight = NoRequests

AddTimelineForm(valid, ids) == [valid |-> valid, timelines |-> ids]

\* Index 4 does not exist.
AddTimelineForms ==
    { AddTimelineForm(TRUE, ids) :
          ids \in { <<1>>, <<2>>, <<3>>, <<4>>, <<1, 1>>, <<1, 3>>, <<3, 1, 3>> } }
    \cup { AddTimelineForm(FALSE, <<1>>) }

NextAddTimeline ==
    \E user \in Users, sketch_id \in UrlSketchIds :
        \/ /\ \E form \in AddTimelineForms : SketchResource_post(user, sketch_id, form)
           /\ Len(timelines') <= MaxTimelines
        \/ \E timeline_id \in DOMAIN timelines :
               TimelineResource_delete(user, sketch_id, timeline_id)

SpecAddTimeline == InitAddTimeline /\ [][NextAddTimeline]_vars

\* The timelines of a sketch bound to an index.
TimelinesOf(table, sketch_id, searchindex_id) ==
    {t \in DOMAIN table : /\ table[t].sketch_id = sketch_id
                          /\ table[t].searchindex = searchindex_id}

\* No sketch holds two timelines bound to the same index.
UniqueTimelines(table) ==
    \A sketch_id \in SketchIds, searchindex_id \in DOMAIN searchindices :
        Cardinality(TimelinesOf(table, sketch_id, searchindex_id)) <= 1

\* C24: no sketch ever holds two timelines bound to the same index, and an
\* add-timelines request leaves alone the timelines of every index it names
\* that the sketch already holds.
C24_OneTimelinePerIndex ==
    /\ UniqueTimelines(timelines)
    /\ [][ /\ UniqueTimelines(timelines')
           /\ request'.op = "SketchResource.post"
              => \A i \in 1..Len(request'.form.timelines) :
                    LET id == request'.form.timelines[i]
                    IN TimelinesOf(timelines, request'.sketch_id, id) # {}
                       => TimelinesOf(timelines', request'.sketch_id, id)
                              = TimelinesOf(timelines, request'.sketch_id, id)
         ]_vars

\* A request that names index 1 twice was answered 201, and sketch 1 holds
\* one timeline bound to it.
C24_Witness ==
    /\ request.op = "SketchResource.post"
    /\ request.form.timelines = <<1, 1>>
    /\ response.status = HTTP_STATUS_CODE_CREATED
    /\ Cardinality(TimelinesOf(timelines, request.sketch_id, 1)) = 1

(***************************************************************************)
(* SpecAttach: label annotations of the shared document by every user.     *)
(***************************************************************************)
AttachForms ==
    { EventAnnotationForm(TRUE, "label", annotation, <<EventRef("idx_b", "d2")>>) :
          annotation \in {"__ts_star", "tag"} }

NextAttach ==
    \E user \in Users, sketch_id \in UrlSketchIds, form \in AttachForms :
        /\ EventAnnotationResource_post(user, sketch_id, form)
        /\ Len(events') <= MaxEvents
        /\ \A e \in DOMAIN events' : Len(events'[e].labels) <= MaxAttached
        /\ \A d \in DOMAIN es_labels' : Len(es_labels'[d]) <= MaxAttached

SpecAttach == Init /\ [][NextAttach]_vars

\* C22: no Event carries two attached Labels of the same label text.
C22_OneLabelPerText ==
    \A e \in DOMAIN events :
        \A i, j \in 1..Len(events[e].labels) :
            i # j => events[e].labels[i].label # events[e].labels[j].label

(***************************************************************************)
(* Annotation by several workers at once.  Event.get_or_create is a SELECT *)
(* followed by an INSERT when the SELECT found no row; another worker may  *)
(* run between the two.  A request with one event reference.               *)
(***************************************************************************)
\* cls.query.filter_by(**kwargs).first(): the id of the first row with the
\* key, 0 for None.
event_select(table, sketch_id, searchindex, document_id) ==
    LET found == {i \in DOMAIN table : /\ table[i].sketch_id = sketch_id
                                       /\ table[i].searchindex = searchindex
                                       /\ table[i].document_id = document_id}
    IN IF found = {} THEN 0 ELSE CHOOSE i \in found : \A j \in found : i <= j

\* An INSERT whatever the SELECT found.
event_insert_always(table, found, sketch_id, searchindex, document_id) ==
    Append(table, [sketch_id |-> sketch_id, searchindex |-> searchindex,
                   document_id |-> document_id, comments |-> <<>>,
                   labels |-> <<>>])

\* if not instance: instance = cls(**kwargs); db_session.add(instance);
\* db_session.commit() -- with what the SELECT found, not with the table as
\* it is now.
event_insert(table, found, sketch_id, searchindex, document_id) ==
    IF found = 0
    THEN Append(table, [sketch_id |-> sketch_id, searchindex |-> searchindex,
                        document_id |-> document_id, comments |-> <<>>,
                        labels |-> <<>>])
    ELSE table

\* The handler up to the SELECT of Event.get_or_create.
AnnotateSelect(w, user, sketch_id, form) ==
    LET ref == form.events[1]
        rejected == IF ~form.valid
                    THEN HTTP_STATUS_CODE_BAD_REQUEST
                    ELSE IF ~get_with_acl(sketch_id, user)
                    THEN HTTP_STATUS_CODE_NOT_FOUND
                    ELSE IF ref.index \notin sketch_indices(sketch_id)
                    THEN HTTP_STATUS_CODE_BAD_REQUEST
                    ELSE 0
    IN
    /\ inflight[w].pc = "idle"
    /\ IF rejected # 0
       THEN /\ request' = Request("EventAnnotationResource.post", user, sketch_id,
                                  0, form)
            /\ response' = Reply(rejected)
            /\ ds_calls' = <<>>
            /\ UNCHANGED inflight
       ELSE /\ inflight' = [inflight EXCEPT ![w] =
                              [pc |-> "insert", user |-> user,
                               sketch_id |-> sketch_id, form |-> form,
                               found |-> event_select(events, sketch_id,
                                             searchindex_by_name(ref.index),
                                             ref.id)]]
            /\ UNCHANGED <<request, response, ds_calls>>
    /\ UNCHANGED <<views, searchtemplates, stories, timelines, searchindices,
                   events, es_labels, jobs, now>>

\* The handler from the INSERT of Event.get_or_create to its response.
AnnotateInsert(w) ==
    LET user == inflight[w].user
        sketch_id == inflight[w].sketch_id
        form == inflight[w].form
        ref == form.events[1]
        table == event_insert(events, inflight[w].found, sketch_id,
                              searchindex_by_name(ref.index), ref.id)
        id == IF inflight[w].found = 0 THEN Len(events) + 1 ELSE inflight[w].found
        is_comment == contains(form.annotation_type, "comment")
        label == IF is_comment THEN "__ts_comment" ELSE form.annotation
        toggle == IF is_comment THEN FALSE ELSE label_toggle(form.annotation)
        annotation == [label |-> form.annotation, user |-> user]
    IN
    /\ inflight[w].pc = "insert"
    /\ events' =
          IF is_comment
          THEN [table EXCEPT ![id].comments =
                   Append(@, [comment |-> form.annotation, user |-> user])]
          ELSE IF \E i \in 1..Len(table[id].labels) : table[id].labels[i] = annotation
          THEN table
          ELSE [table EXCEPT ![id].labels = Append(@, annotation)]
    /\ ds_calls' = << [call |-> "set_label", index |-> ref.index, id |-> ref.id,
                       sketch_id |-> sketch_id, user_id |-> user,
                       label |-> label, toggle |-> toggle] >>
    /\ es_labels' = es_set_label(es_labels, <<ref.index, ref.id>>,
                                 [name |-> label, sketch_id |-> sketch_id,
                                  user_id |-> user], toggle)
    /\ request' = Request("EventAnnotationResource.post", user, sketch_id, 0, form)
    /\ response' = Reply(HTTP_STATUS_CODE_CREATED)
    /\ inflight' = [inflight EXCEPT ![w] = IdleWorker]
    /\ UNCHANGED <<views, searchtemplates, stories, timelines, searchindices,
                   jobs, now>>

(***************************************************************************)
(* SpecRace: the workers annotate the shared document.                     *)
(***************************************************************************)
RaceForms ==
    { EventAnnotationForm(TRUE, "label", "tag", <<EventRef("idx_b", "d2")>>),
      EventAnnotationForm(TRUE, "label", "tag", <<EventRef("idx_x", "d9")>>) }

NextRace ==
    \E w \in Workers :
        \/ \E user \in Users, sketch_id \in UrlSketchIds, form \in RaceForms :
               AnnotateSelect(w, user, sketch_id, form)
        \/ /\ AnnotateInsert(w)
           /\ Len(events') <= MaxEvents
           /\ \A e \in DOMAIN events' : /\ Len(events'[e].comments) <= MaxAnnotations
                                         /\ Len(events'[e].labels) <= MaxAttached
           /\ \A d \in DOMAIN es_labels' : Len(es_labels'[d]) <= MaxAttached

SpecRace == Init /\ [][NextRace]_vars

\* At most one Event row has each key (sketch, searchindex, document id).
UniqueEventKeys ==
    \A i, j \in DOMAIN events :
        ( /\ events[i].sketch_id = events[j].sketch_id
          /\ events[i].searchindex = events[j].searchindex
          /\ events[i].document_id = events[j].document_id ) => i = j

\* At most one worker is in the middle of a request.
Sequential ==
    Cardinality({w \in Workers : inflight[w].pc # "idle"}) <= 1

\* C21: in every execution in which no two requests are handled at the same
\* time, at most one Event row exists for each key; the witness is the
\* state with two rows of one key that interleaved requests reach.
C21_SequentialKeepsOneEventPerKey ==
    [](Sequential) => [](UniqueEventKeys)

\* Two Event rows have the same sketch, search index and document id.
C21_Witness ==
    /\ Len(events) = 2
    /\ events[1].sketch_id = events[2].sketch_id
    /\ events[1].searchindex = events[2].searchindex
    /\ events[1].document_id = events[2].document_id
    /\ \A w \in Workers : inflight[w].pc = "idle"

====
